---- MODULE Spec2Model ----
(***************************************************************************)
(* Model of the companion dispatcher of ani-vscode: the message queue      *)
(* (MessageQueue), the scheduling / dispatch loop (AgentLoop) and the      *)
(* plugin selection it uses (PluginManager).  Time is in milliseconds and  *)
(* advances from one deadline (timer expiry, end of cooldown) to the next. *)
(***************************************************************************)
EXTENDS Integers, Sequences, FiniteSets, TLC

\* ------------------------------------------------------------------ bounds
MaxTime == 11500
MaxQueue == 2
MaxCycles == 2
MaxRounds == 1
MaxPendingRandom == 1
MaxTriggers == 2
DrawScale == 2
MaxCallsPerResponse == 2
MaxCommits == 1

\* ------------------------------------------------------- program constants
DebounceMs == 500
MinIntervalFloorSec == 10
MinHistoryFloor == 1

\* ----------------------------------------------------------- value domains
Null == -1
Undefined == 0
NoHint == "none"
NoPlugin == "none"
NoEditor == "none"
NullMsg == "<null>"

Texts == {"", "a"}
Docs == {"f1"}
Characters == {"Mao", "Hiyori"}
PluginOrder == <<"codeReview", "hackerNews", "rssFeed", "screenshot">>
PluginIds == {PluginOrder[i] : i \in 1..Len(PluginOrder)}
Hints == {NoHint, "codeReview"}

Max(a, b) == IF a > b THEN a ELSE b

\* ------------------------------------------------------------------- state
VARIABLES
  now,                \* Date.now()
  cfg,                \* workspace configuration 'ani-vscode'
  activeDoc,          \* vscode.window.activeTextEditor document path
  queue,              \* MessageQueue.queue
  queueMeta,          \* per queued message: how it was enqueued (history)
  llmInFlight,        \* AgentLoop.llmInFlight
  lastLlmEndedAt,     \* AgentLoop.lastLlmEndedAt
  roastDebounceTimer, \* AgentLoop.roastDebounceTimer (timer handle)
  cooldownTimer,      \* AgentLoop.cooldownTimer (timer handle)
  timers,             \* timers pending in the runtime (setTimeout)
  chatHistory,        \* AgentLoop.chatHistory
  lastFilePath,       \* AgentLoop.lastFilePath
  currentCharacter,   \* AgentLoop.currentCharacter
  pendingQuickReplies,\* AgentLoop.pendingQuickReplies
  cycles,             \* activations of run() that hold the lock and are suspended at an await
  pendingRandom,      \* activations of triggerRandomPlugin() suspended at await selectRandomPlugin
  nCycles,            \* number of dispatch cycles started so far
  nTriggers,          \* number of trigger() calls so far
  lastTrigger,        \* history: the most recent trigger() call of the current burst
  lastRun,            \* history: the call of run() made by the last step, if any
  panel,              \* (this as any).panel is set (TRUE) or null (FALSE)
  git,                \* the watched repository, its tracker and its pending events
  lastOut             \* what the last step posted to the webview or returned

envVars == <<now, cfg, activeDoc, panel, git>>
queueVars == <<queue, queueMeta>>
timerVars == <<roastDebounceTimer, cooldownTimer, timers>>
histVars == <<chatHistory, lastFilePath, currentCharacter>>
lockVars == <<llmInFlight, lastLlmEndedAt>>
cycleVars == <<cycles, pendingQuickReplies, nCycles>>
ghostVars == <<lastTrigger, lastRun, lastOut>>
vars == <<envVars, queueVars, timerVars, histVars, lockVars, cycleVars,
          pendingRandom, nTriggers, ghostVars>>

\* ------------------------------------------------------------ MessageQueue
enqueue(q, message) == Append(q, message)

\* number of leading priority entries
PriorityPrefix(meta) ==
  Cardinality({i \in 1..Len(meta) : \A j \in 1..i : meta[j].priority})

InsertAt(s, k, x) == SubSeq(s, 1, k) \o <<x>> \o SubSeq(s, k + 1, Len(s))

enqueueFront(q, meta, message) == InsertAt(q, PriorityPrefix(meta), message)

isEmpty(q) == Len(q) = 0

\* `this.queue.shift() || null`: an empty string is falsy and becomes null
dequeue(q) ==
  IF Len(q) = 0 THEN NullMsg
  ELSE IF Head(q) = "" THEN NullMsg ELSE Head(q)

AfterDequeue(q) == IF Len(q) = 0 THEN q ELSE Tail(q)

peek(q) == IF Len(q) = 0 THEN NullMsg ELSE Head(q)

\* seq of an entry: its rank, in the order of the enqueueing calls, among the
\* entries still queued
NextSeq(meta) == Len(meta) + 1

Rerank(meta) ==
  [i \in 1..Len(meta) |->
     [meta[i] EXCEPT !.seq = Cardinality({j \in 1..Len(meta) :
                                            meta[j].seq <= meta[i].seq})]]

\* ------------------------------------------------------------ conversation
\* tool_calls: the ids of the tool calls an assistant turn carries;
\* tool_call_id: the call a tool turn answers
Turn(role, content, cid) ==
  [role |-> role, content |-> content, cyc |-> cid, tool_calls |-> <<>>,
   tool_call_id |-> Null]

SystemMessage(character) == Turn("system", character, 0)
HumanMessage(text, cid) == Turn("human", text, cid)
AIMessage(kind, cid) == Turn("ai", kind, cid)
ToolMessage(status, id, cid) == [Turn("tool", status, cid) EXCEPT !.tool_call_id = id]

\* AgentLoop.run: reset the history when the active file differs
FileSwitchHistory(h, lfp, doc) ==
  IF doc # NoEditor /\ lfp # doc THEN <<>> ELSE h

FileSwitchPath(lfp, doc) ==
  IF doc # NoEditor /\ lfp # doc THEN doc ELSE lfp

\* AgentLoop.run: "Ensure system prompt is present at the start of history"
EnsureSystem(h, character) ==
  IF Len(h) = 0 \/ h[1].role # "system"
  THEN <<SystemMessage(character)>> \o h
  ELSE h

\* Array.prototype.slice(-n): the last n elements; slice(-0) is slice(0)
SliceLast(s, n) ==
  IF n = 0 THEN s
  ELSE IF n >= Len(s) THEN s
  ELSE SubSeq(s, Len(s) - n + 1, Len(s))

ClampMaxHistory(v) == Max(MinHistoryFloor, v)

\* AgentLoop.run: "Update chat history and prune if needed"
UpdateHistory(h, newMessages, maxHistory) ==
  LET pushed == h \o newMessages
  IN IF Len(pushed) > maxHistory
     THEN LET system == IF pushed[1].role = "system" THEN <<pushed[1]>> ELSE <<>>
              tail == SliceLast(pushed, maxHistory - Len(system))
          IN system \o tail
     ELSE pushed

\* ---------------------------------------------------------------- cooldown
MinIntervalSecNoFloor(v) == v

MinIntervalSec(v) == Max(MinIntervalFloorSec, v)

MinMs == MinIntervalSec(cfg.minIntervalSeconds) * 1000

InFlightGuardOff(flag) == FALSE

InFlightGuard(flag) == flag

CoolingDown(t, last, minMs) == last # Null /\ t - last < minMs

RescheduleDelayFull(minMs, elapsedMs) == minMs

RescheduleDelay(minMs, elapsedMs) == Max(0, minMs - elapsedMs)

SkipRescheduleIgnored(skip) == FALSE

SkipReschedule(skip) == skip

\* ------------------------------------------------------------------ timers
TimerIds(T) == {t.id : t \in T}

\* a handle that is not in use: not pending and not held by the other field
FreshId(T, held) ==
  LET used == TimerIds(T) \cup {held, Undefined}
  IN CHOOSE i \in 1..(Cardinality(used) + 1) :
       i \notin used /\ \A j \in 1..(i - 1) : j \in used

clearTimeoutNoop(T, handle) == T

clearTimeout(T, handle) == {t \in T : t.id # handle}

\* inFl and endAtArm are history: whether the trigger() call was made while a
\* cycle was in flight, and lastLlmEndedAt when a cooldown timer was armed
Timer(id, due, kind, pluginId, inFl, endAtArm) ==
  [id |-> id, due |-> due, kind |-> kind, pluginId |-> pluginId,
   inFl |-> inFl, endAtArm |-> endAtArm]

\* ------------------------------------------------------------ PluginManager
getPlugin(id) == IF id \in PluginIds THEN id ELSE NoPlugin

isEnabled(id) == cfg.enabled[id]

getEnabledPlugins == SelectSeq(PluginOrder, isEnabled)

\* what the plugin's own getWeight returns; 1.0 when it has none
DefaultWeight(id) == IF id = "screenshot" THEN 2 ELSE 1

getPluginWeightIgnoresOverride(id) == DefaultWeight(id)

getPluginWeight(id) ==
  IF cfg.weight[id] # Null /\ cfg.weight[id] >= 0
  THEN cfg.weight[id]
  ELSE DefaultWeight(id)

SumTo(w, n) ==
  LET F[i \in 0..n] == IF i = 0 THEN 0 ELSE F[i - 1] + w[i]
  IN F[n]

\* how each registered plugin implements shouldTrigger: not at all, as a
\* function returning a boolean, or as an async function returning a Promise
ShouldTriggerKind(id) ==
  CASE id = "codeReview" -> "absent"
    [] id = "hackerNews" -> "sync"
    [] id = "rssFeed" -> "async"
    [] id = "screenshot" -> "sync"

\* the booleans the hooks return or resolve to: hackerNews always answers
\* true, screenshot answers false without an active editor
Verdicts ==
  {v \in [PluginIds -> BOOLEAN] :
     /\ v["codeReview"]
     /\ v["hackerNews"]
     /\ v["screenshot"] => activeDoc # NoEditor}

\* the value the filter callback hands to Array.filter, as a truth value: a
\* Promise is an object and is truthy whatever it resolves to
FilterKeeps(id, verdict) ==
  CASE ShouldTriggerKind(id) = "absent" -> TRUE
    [] ShouldTriggerKind(id) = "sync" -> verdict[id]
    [] ShouldTriggerKind(id) = "async" -> TRUE

\* the list `enabled` after the shouldTrigger filter
Candidates(verdict) ==
  LET Keeps(id) == FilterKeeps(id, verdict)
  IN SelectSeq(getEnabledPlugins, Keeps)

Weights(enabled) == [i \in 1..Len(enabled) |-> getPluginWeight(enabled[i])]

TotalWeight(enabled) == SumTo(Weights(enabled), Len(enabled))

\* the position the loop stops at for the draw r / DrawScale; 0 when the loop
\* runs to its end
FirstHitPastBoundary(weights, r) ==
  LET hits == {i \in 1..Len(weights) : r - DrawScale * SumTo(weights, i) < 0}
  IN IF hits = {} THEN 0 ELSE CHOOSE i \in hits : \A j \in hits : i <= j

FirstHit(weights, r) ==
  LET hits == {i \in 1..Len(weights) : r - DrawScale * SumTo(weights, i) <= 0}
  IN IF hits = {} THEN 0 ELSE CHOOSE i \in hits : \A j \in hits : i <= j

\* weighted choice over the list `enabled`; the draw Math.random() * totalWeight
\* is r / DrawScale
WeightedPick(enabled, r) ==
  LET weights == Weights(enabled)
      totalWeight == SumTo(weights, Len(enabled))
      hit == FirstHit(weights, r)
  IN IF Len(enabled) = 0 THEN NoPlugin
     ELSE IF totalWeight = 0 THEN NoPlugin
     ELSE IF hit = 0 THEN enabled[Len(enabled)]
     ELSE enabled[hit]

selectRandomPlugin(verdict, r) == WeightedPick(Candidates(verdict), r)

\* Math.random() is in [0, 1): the draws k / DrawScale in [0, totalWeight)
Draws(verdict) ==
  LET t == TotalWeight(Candidates(verdict))
  IN IF t = 0 THEN {0} ELSE 0..(DrawScale * t - 1)

\* ------------------------------------------------------------ initial state
NoPath == "null"

Config(minIntervalSeconds, maxHistory, quickRepliesEnabled, disabled) ==
  [minIntervalSeconds |-> minIntervalSeconds, maxHistory |-> maxHistory,
   quickRepliesEnabled |-> quickRepliesEnabled,
   enabled |-> [id \in PluginIds |-> id \notin disabled],
   weight |-> [id \in PluginIds |-> Null],
   throwingHooks |-> FALSE]

\* every plugin switched off but screenshot, the registered plugin whose
\* shouldTrigger can answer false: selection returns it or none
AllButScreenshot == {"codeReview", "hackerNews", "rssFeed"}

\* the same settings with registered plugins whose shouldTrigger may throw
ThrowingHooks(c) == [c EXCEPT !.throwingHooks = TRUE]

Configs ==
  {Config(5, 0, FALSE, AllButScreenshot), Config(11, 3, TRUE, AllButScreenshot),
   ThrowingHooks(Config(5, 2, TRUE, AllButScreenshot))}

NoTrigger == [hint |-> NoHint, at |-> Null, first |-> Null, calls |-> 0]

NoRun ==
  [src |-> "none", hint |-> NoHint, skip |-> FALSE, outcome |-> "none",
   wasInFlight |-> FALSE, prevEnd |-> Null, trigInFl |-> FALSE,
   endAtArm |-> Null, trigHint |-> NoHint, trigAt |-> Null, trigFirst |-> Null,
   trigCalls |-> 0,
   queueLen |-> 0, head |-> NullMsg, headPriority |-> FALSE,
   priorityInFlight |-> FALSE, debounceLeft |-> 0]

\* `if (panel) { panel.webview.postMessage(...) }`
Post(p, events) == IF p THEN events ELSE <<>>

NoReturn == "<none>"

NoOut ==
  [call |-> NoReturn, args |-> <<>>, posted |-> <<>>, quickReplies |-> <<>>,
   returned |-> NoReturn, awaited |-> NoReturn]

Posted(events) == [NoOut EXCEPT !.posted = events]

\* a call of a method from outside: its name and what it returned
Called(name, result) == [NoOut EXCEPT !.call = name, !.returned = result]

\* a continuation of run(): how the awaited call settled, and what was posted
Settled(how, events) == [NoOut EXCEPT !.posted = events, !.awaited = how]

\* ------------------------------------------------------- git integration
\* the repository when it is first watched: HEAD is commit 0, in sync with its
\* upstream; `events` are the notifications of a push still to be delivered,
\* `complimented` counts, per commit, the compliment prompts enqueued (history)
Repository ==
  [ahead |-> 0, commit |-> 0, events |-> {},
   lastAhead |-> Null, lastHandledCommit |-> Null, isHandlingPush |-> FALSE,
   complimented |-> [k \in 0..MaxCommits |-> 0]]

initializeRepositoryTracker(repo) ==
  [repo EXCEPT !.lastAhead = repo.ahead,
               !.lastHandledCommit =
                  IF repo.lastHandledCommit = Null /\ repo.ahead = 0
                  THEN repo.commit ELSE repo.lastHandledCommit]

SchedConfigs ==
  {Config(5, 5, FALSE, AllButScreenshot), Config(11, 5, FALSE, AllButScreenshot)}

InitWith(configs, docs) ==
  /\ now = 0
  /\ cfg \in configs
  /\ activeDoc \in docs
  /\ queue = <<>>
  /\ queueMeta = <<>>
  /\ llmInFlight = FALSE
  /\ lastLlmEndedAt = Null
  /\ roastDebounceTimer = Undefined
  /\ cooldownTimer = Undefined
  /\ timers = {}
  /\ chatHistory = <<>>
  /\ lastFilePath = NoPath
  /\ currentCharacter = "Mao"
  /\ pendingQuickReplies = <<>>
  /\ cycles = {}
  /\ pendingRandom = <<>>
  /\ nCycles = 0
  /\ nTriggers = 0
  /\ lastTrigger = NoTrigger
  /\ lastRun = NoRun
  /\ panel = TRUE
  /\ git = initializeRepositoryTracker(Repository)
  /\ lastOut = NoOut

\* ------------------------------------------------------- AgentLoop.trigger
trigger(pluginId) ==
  LET T1 == IF roastDebounceTimer # Undefined
            THEN clearTimeout(timers, roastDebounceTimer)
            ELSE timers
      id == FreshId(T1, cooldownTimer)
  IN /\ now + DebounceMs <= MaxTime
     /\ nTriggers < MaxTriggers
     /\ nTriggers' = nTriggers + 1
     /\ timers' = T1 \cup {Timer(id, now + DebounceMs, "debounce", pluginId,
                                 llmInFlight, Null)}
     /\ roastDebounceTimer' = id
     /\ lastTrigger' = [hint |-> pluginId, at |-> now,
                         first |-> IF lastTrigger.first = Null
                                   THEN now ELSE lastTrigger.first,
                         calls |-> lastTrigger.calls + 1]
     /\ UNCHANGED <<envVars, queueVars, cooldownTimer, histVars, lockVars,
                    cycleVars, pendingRandom>>
     /\ lastRun' = NoRun /\ lastOut' = NoOut

\* ----------------------------------------------------------- AgentLoop.run
RunRecord(src, pluginId, skip, outcome, T, meta) ==
  [src |-> src, hint |-> pluginId, skip |-> skip, outcome |-> outcome,
   wasInFlight |-> llmInFlight, prevEnd |-> lastLlmEndedAt,
   trigInFl |-> meta.inFl, endAtArm |-> meta.endAtArm,
   trigHint |-> lastTrigger.hint, trigAt |-> lastTrigger.at,
   trigFirst |-> lastTrigger.first, trigCalls |-> lastTrigger.calls,
   queueLen |-> Len(queue), head |-> peek(queue),
   headPriority |-> (Len(queueMeta) > 0 /\ queueMeta[1].priority),
   priorityInFlight |-> (\E i \in 1..Len(queueMeta) : queueMeta[i].inFlight),
   debounceLeft |-> Cardinality({t \in T : t.kind = "debounce"})]

\* prepared is history: whether the start of the cycle changed the history
NewCycle(cid, pc, pluginId, plugin, userPrompt, hts, nm) ==
  [cid |-> cid, pc |-> pc, hint |-> pluginId, plugin |-> plugin,
   fromQueue |-> (userPrompt # NullMsg), userPrompt |-> userPrompt,
   maxHistory |-> ClampMaxHistory(cfg.maxHistory),
   quickRepliesEnabled |-> cfg.quickRepliesEnabled,
   historyToSend |-> hts, newMessages |-> nm, rounds |-> 0,
   panel |-> panel,
   prepared |-> (chatHistory #
                 EnsureSystem(FileSwitchHistory(chatHistory, lastFilePath, activeDoc),
                              currentCharacter))]

\* the `catch` block of run(): the failure event by kind of error
ErrorKinds == {"connection", "other"}

catchEventsNone(kind) == <<>>

catchEvents(kind) ==
  IF kind \in {"connection", "model"} THEN <<"setupError">> ELSE <<"errorSpeech">>

\* the message posted by the `finally` block
finallyEvents == <<"thinkingOff">>

FinallyNoEndTime(remaining) ==
  /\ llmInFlight' = FALSE
  /\ UNCHANGED lastLlmEndedAt
  /\ cycles' = remaining

\* the `finally` block of run()
Finally(remaining) ==
  /\ llmInFlight' = FALSE
  /\ lastLlmEndedAt' = now
  /\ cycles' = remaining

\* run() returns without acquiring the lock
RunReturns(src, pluginId, skip, outcome, T, cd, meta) ==
  /\ timers' = T
  /\ cooldownTimer' = cd
  /\ lastRun' = RunRecord(src, pluginId, skip, outcome, T, meta)
  /\ lastOut' = NoOut
  /\ UNCHANGED <<queueVars, histVars, lockVars, cycleVars>>

\* run() arms the cooldown timer
RunReschedules(src, pluginId, skip, T, cd, meta) ==
  LET delay == RescheduleDelay(MinMs, now - lastLlmEndedAt)
      T1 == IF cd # Undefined THEN clearTimeout(T, cd) ELSE T
      id == FreshId(T1, roastDebounceTimer)
  IN /\ timers' = T1 \cup {Timer(id, now + delay, "cooldown", pluginId,
                                 meta.inFl, lastLlmEndedAt)}
     /\ cooldownTimer' = id
     /\ lastRun' = RunRecord(src, pluginId, skip, "rescheduled", T, meta)
     /\ lastOut' = NoOut
     /\ UNCHANGED <<queueVars, histVars, lockVars, cycleVars>>

\* run() from `this.llmInFlight = true` to its first await or return; a
\* shouldTrigger hook that throws does so inside the synchronous call of
\* selectRandomPlugin: catch and finally follow in the same step
RunAcquires(src, pluginId, skip, T, cd, meta) ==
  LET cid == nCycles + 1
      h1 == FileSwitchHistory(chatHistory, lastFilePath, activeDoc)
      h2 == EnsureSystem(h1, currentCharacter)
      message == dequeue(queue)
      plugin == getPlugin(pluginId)
      human == HumanMessage(message, cid)
      started == NewCycle(cid, "llm", pluginId, NoPlugin, message,
                          h2 \o <<human>>, <<human>>)
      waiting == IF pluginId # NoHint
                 THEN NewCycle(cid, "generate", pluginId, plugin, NullMsg, <<>>, <<>>)
                 ELSE NewCycle(cid, "select", pluginId, NoPlugin, NullMsg, <<>>, <<>>)
  IN /\ nCycles < MaxCycles
     /\ nCycles' = cid
     /\ timers' = T
     /\ cooldownTimer' = cd
     /\ lastRun' = RunRecord(src, pluginId, skip, "started", T, meta)
     /\ lastFilePath' = FileSwitchPath(lastFilePath, activeDoc)
     /\ chatHistory' = h2
     /\ UNCHANGED currentCharacter
     /\ queue' = AfterDequeue(queue)
     /\ queueMeta' = Rerank(AfterDequeue(queueMeta))
     /\ IF ~isEmpty(queue)
        THEN IF message = NullMsg
             THEN /\ Finally(cycles)
                  /\ UNCHANGED pendingQuickReplies
                  /\ lastOut' = Posted(Post(panel, <<"thinkingOn">> \o finallyEvents))
             ELSE /\ llmInFlight' = TRUE
                  /\ cycles' = cycles \cup {started}
                  /\ pendingQuickReplies' = <<>>
                  /\ UNCHANGED lastLlmEndedAt
                  /\ lastOut' = Posted(Post(panel, <<"thinkingOn">>))
        ELSE IF pluginId # NoHint /\ plugin = NoPlugin
             THEN /\ Finally(cycles)
                  /\ UNCHANGED pendingQuickReplies
                  /\ lastOut' = Posted(Post(panel, <<"thinkingOn">> \o finallyEvents))
             ELSE \/ /\ llmInFlight' = TRUE
                     /\ cycles' = cycles \cup {waiting}
                     /\ UNCHANGED <<lastLlmEndedAt, pendingQuickReplies>>
                     /\ lastOut' = Posted(Post(panel, <<"thinkingOn">>))
                  \/ \E kind \in ErrorKinds :
                       /\ pluginId = NoHint
                       /\ cfg.throwingHooks
                       /\ Finally(cycles)
                       /\ pendingQuickReplies' = <<>>
                       /\ lastOut' = Settled("select:throw",
                                             Post(panel, <<"thinkingOn">> \o
                                                         catchEvents(kind) \o
                                                         finallyEvents))

run(src, pluginId, skip, T, cd, meta) ==
  IF InFlightGuard(llmInFlight)
  THEN RunReturns(src, pluginId, skip, "dropped", T, cd, meta)
  ELSE IF CoolingDown(now, lastLlmEndedAt, MinMs)
       THEN IF SkipReschedule(skip)
            THEN RunReturns(src, pluginId, skip, "cooling", T, cd, meta)
            ELSE RunReschedules(src, pluginId, skip, T, cd, meta)
       ELSE RunAcquires(src, pluginId, skip, T, cd, meta)

\* the callback of the debounce timer
DebounceExpires ==
  \E t \in timers :
    /\ t.kind = "debounce"
    /\ t.due <= now
    /\ run("debounce", t.pluginId, FALSE, timers \ {t}, cooldownTimer, t)
    /\ lastTrigger' = NoTrigger
    /\ UNCHANGED <<envVars, roastDebounceTimer, pendingRandom, nTriggers>>

\* the callback of the cooldown timer
CooldownExpires ==
  \E t \in timers :
    /\ t.kind = "cooldown"
    /\ t.due <= now
    /\ run("cooldown", t.pluginId, FALSE, timers \ {t}, Undefined, t)
    /\ UNCHANGED <<envVars, roastDebounceTimer, pendingRandom, nTriggers, lastTrigger>>

\* ------------------------------------------- the suspended part of a cycle
Replace(c, d) == (cycles \ {c}) \cup {d}

\* `await this.pluginManager.selectRandomPlugin(cfg, context)` resolves
SelectResolves ==
  \E c \in cycles : \E verdict \in Verdicts : \E r \in Draws(verdict) :
    LET plugin == selectRandomPlugin(verdict, r)
    IN /\ c.pc = "select"
       /\ IF plugin = NoPlugin
          THEN /\ Finally(cycles \ {c})
               /\ lastOut' = Settled("select:none", Post(panel, finallyEvents))
          ELSE /\ cycles' = Replace(c, [c EXCEPT !.pc = "generate", !.plugin = plugin])
               /\ UNCHANGED lockVars
               /\ lastOut' = Settled("select:plugin", <<>>)
       /\ UNCHANGED <<envVars, queueVars, timerVars, histVars, pendingQuickReplies,
                      nCycles, pendingRandom, nTriggers, lastTrigger>>
       /\ lastRun' = NoRun

GenerateOutcomes == {"null", "message", "throw"}

AfterNullMessageRetries(c) == Replace(c, [c EXCEPT !.pc = "select", !.plugin = NoPlugin])

\* `if (!pluginMessage) { return; }`: the activation is over
AfterNullMessage(c) == cycles \ {c}
PluginPrompt == "p"

\* `await triggeringPlugin.generateMessage(context)` resolves or rejects;
\* on a message run() continues to the first `llmRunner.invoke`
GenerateResolves ==
  \E c \in cycles : \E outcome \in GenerateOutcomes : \E kind \in ErrorKinds :
    LET human == HumanMessage(PluginPrompt, c.cid)
    IN /\ c.pc = "generate"
       /\ outcome # "throw" => kind = "other"
       /\ CASE outcome = "null" ->
                 /\ Finally(AfterNullMessage(c))
                 /\ UNCHANGED pendingQuickReplies
                 /\ lastOut' = Settled("generate:null", Post(panel, finallyEvents))
            [] outcome = "throw" ->
                 /\ Finally(cycles \ {c})
                 /\ pendingQuickReplies' = <<>>
                 /\ lastOut' = Settled("generate:throw",
                                       Post(panel, catchEvents(kind) \o finallyEvents))
            [] outcome = "message" ->
                 /\ cycles' = Replace(c, [c EXCEPT !.pc = "llm",
                                            !.userPrompt = PluginPrompt,
                                            !.historyToSend = chatHistory \o <<human>>,
                                            !.newMessages = <<human>>])
                 /\ pendingQuickReplies' = <<>>
                 /\ UNCHANGED lockVars
                 /\ lastOut' = Settled("generate:message", <<>>)
       /\ UNCHANGED <<envVars, queueVars, timerVars, histVars, nCycles,
                      pendingRandom, nTriggers, lastTrigger>>
       /\ lastRun' = NoRun

ToolNames == {"show_quick_replies", "other_tool"}
ReplyArgs == {<<>>, <<"yes">>}
ToolCalls == [name : ToolNames, replies : ReplyArgs]
ToolCallLists ==
  {<<[name |-> "show_quick_replies", replies |-> <<"yes">>]>>,
   <<[name |-> "show_quick_replies", replies |-> <<"yes">>],
     [name |-> "show_quick_replies", replies |-> <<>>]>>,
   <<[name |-> "other_tool", replies |-> <<>>],
     [name |-> "show_quick_replies", replies |-> <<"yes">>]>>}

\* AgentLoop.executeToolCall: the status of the tool result
executeToolCall(call) ==
  IF call.name = "show_quick_replies" THEN "success" ELSE "error"

\* a reply option, with the cycle whose tool call proposed it (history)
QuickReply(text, cid) == [text |-> text, cyc |-> cid]

normalizeQuickReplies(replies, cid) ==
  [i \in 1..Len(replies) |-> QuickReply(replies[i], cid)]

handleQuickRepliesToolKeepsOnEmpty(pending, call, cid) ==
  IF call.name = "show_quick_replies" /\ call.replies # <<>>
  THEN normalizeQuickReplies(call.replies, cid)
  ELSE pending

\* AgentLoop.handleQuickRepliesTool: the effect on pendingQuickReplies
handleQuickRepliesTool(pending, call, cid) ==
  IF call.name = "show_quick_replies"
  THEN normalizeQuickReplies(call.replies, cid)
  ELSE pending

\* call.id of the i-th tool call of the response that ends round `round`
ToolCallId(round, i) == round * (MaxCallsPerResponse + 1) + i

ToolCallIds(calls, round) == [i \in 1..Len(calls) |-> ToolCallId(round, i)]

\* the response of the model that asks for `calls`
AIToolCalls(calls, round, cid) ==
  [AIMessage("tool_calls", cid) EXCEPT !.tool_calls = ToolCallIds(calls, round)]

ToolTurnsReversed(calls, round, cid) ==
  [i \in 1..Len(calls) |->
     ToolMessage(executeToolCall(calls[Len(calls) + 1 - i]),
                 ToolCallId(round, Len(calls) + 1 - i), cid)]

\* `for (const call of toolCalls)`: one tool turn per call, in call order
ToolTurns(calls, round, cid) ==
  [i \in 1..Len(calls) |->
     ToolMessage(executeToolCall(calls[i]), ToolCallId(round, i), cid)]

QuickRepliesAfter(pending, calls, cid) ==
  LET F[i \in 0..Len(calls)] ==
        IF i = 0 THEN pending ELSE handleQuickRepliesTool(F[i - 1], calls[i], cid)
  IN F[Len(calls)]

\* `await llmRunner.invoke(historyToSend)` rejects: catch, then finally
LlmThrows ==
  \E c \in cycles : \E kind \in ErrorKinds :
    /\ c.pc = "llm"
    /\ Finally(cycles \ {c})
    /\ pendingQuickReplies' = <<>>
    /\ lastOut' = Settled("invoke:throw",
                          Post(panel, catchEvents(kind) \o finallyEvents))
    /\ UNCHANGED <<envVars, queueVars, timerVars, histVars, nCycles,
                   pendingRandom, nTriggers, lastTrigger>>
    /\ lastRun' = NoRun

\* invoke resolves with tool calls while tool calling is enabled: the tools
\* are executed and the model is invoked again
LlmReturnsToolCalls ==
  \E c \in cycles : \E calls \in ToolCallLists :
    LET turns == <<AIToolCalls(calls, c.rounds, c.cid)>> \o
                 ToolTurns(calls, c.rounds, c.cid)
    IN /\ c.pc = "llm"
       /\ c.quickRepliesEnabled
       /\ c.rounds < MaxRounds
       /\ cycles' = Replace(c, [c EXCEPT !.rounds = c.rounds + 1,
                                  !.historyToSend = c.historyToSend \o turns,
                                  !.newMessages = c.newMessages \o turns])
       /\ pendingQuickReplies' = QuickRepliesAfter(pendingQuickReplies, calls, c.cid)
       /\ UNCHANGED <<envVars, queueVars, timerVars, histVars, lockVars, nCycles,
                      pendingRandom, nTriggers, lastTrigger>>
       /\ lastRun' = NoRun
       /\ lastOut' = [Settled("invoke:tool_calls", <<>>) EXCEPT !.args = calls]

\* the messages of the presentation part (speech synthesis is skipped while
\* hasAudioCapability is false, its initial value)
speechEvents == <<"ttsError", "speech", "connectionSuccess">>

\* invoke resolves with the final answer: history update, then the speech
\* event on the panel captured at the start of the cycle; run() suspends again
\* at `await this.triggerExpression`, or goes on to `finally` without a panel
\* the quickReplies of the speech event
SpeechQuickReplies(quickRepliesEnabled, pending) ==
  IF quickRepliesEnabled THEN pending ELSE <<>>

FinalAnswer(c, calls) ==
  LET newMessages == c.newMessages \o <<AIMessage("final", c.cid)>>
      d == [c EXCEPT !.pc = "post", !.newMessages = newMessages,
                     !.historyToSend = c.historyToSend \o
                                       <<AIMessage("final", c.cid)>>]
  IN /\ c.pc = "llm"
     /\ chatHistory' = UpdateHistory(chatHistory, newMessages, c.maxHistory)
     /\ IF c.panel
        THEN /\ cycles' = Replace(c, d)
             /\ UNCHANGED lockVars
             /\ lastOut' = [Settled("invoke:text", speechEvents)
                              EXCEPT !.args = calls,
                                     !.quickReplies =
                                        SpeechQuickReplies(c.quickRepliesEnabled,
                                                           pendingQuickReplies)]
        ELSE /\ Finally(cycles \ {c})
             /\ lastOut' = [Settled("invoke:text", Post(panel, finallyEvents))
                              EXCEPT !.args = calls]
     /\ IF c.panel /\ ~c.quickRepliesEnabled
        THEN UNCHANGED pendingQuickReplies
        ELSE pendingQuickReplies' = <<>>
     /\ UNCHANGED <<envVars, queueVars, timerVars, lastFilePath, currentCharacter,
                    nCycles, pendingRandom, nTriggers, lastTrigger>>
     /\ lastRun' = NoRun

LlmReturnsText == \E c \in cycles : FinalAnswer(c, <<>>)

\* tool calling is disabled and the response carries tool calls all the same:
\* the else branch takes the response as the final answer
LlmToolCallsIgnored ==
  \E c \in cycles : \E calls \in ToolCallLists :
    /\ ~c.quickRepliesEnabled
    /\ FinalAnswer(c, calls)

\* the presentation part ends: finally
CycleEnds ==
  \E c \in cycles :
    /\ c.pc = "post"
    /\ Finally(cycles \ {c})
    /\ lastOut' = Settled("triggerExpression", Post(panel, finallyEvents))
    /\ UNCHANGED <<envVars, queueVars, timerVars, histVars, pendingQuickReplies,
                   nCycles, pendingRandom, nTriggers, lastTrigger>>
    /\ lastRun' = NoRun

\* ------------------------------------------------- direct plugin triggers
NoMeta == [inFl |-> FALSE, endAtArm |-> Null]

triggerPlugin(src, pluginId) ==
  LET plugin == getPlugin(pluginId)
  IN IF plugin = NoPlugin \/ ~isEnabled(plugin)
     THEN /\ UNCHANGED <<queueVars, timerVars, histVars, lockVars, cycleVars>>
          /\ lastRun' = NoRun /\ lastOut' = NoOut
     ELSE /\ run(src, pluginId, TRUE, timers, cooldownTimer, NoMeta)
          /\ UNCHANGED roastDebounceTimer

TriggerPluginCall ==
  \E pluginId \in PluginIds \cup {"ghost"} :
    /\ triggerPlugin("plugin", pluginId)
    /\ UNCHANGED <<envVars, pendingRandom, nTriggers, lastTrigger>>

\* triggerRandomPlugin() up to `await selectRandomPlugin`
triggerRandomPlugin ==
  \E verdict \in Verdicts : \E r \in Draws(verdict) :
    /\ ~llmInFlight
    /\ Len(pendingRandom) < MaxPendingRandom
    /\ pendingRandom' = Append(pendingRandom, selectRandomPlugin(verdict, r))
    /\ UNCHANGED <<envVars, queueVars, timerVars, histVars, lockVars, cycleVars,
                   nTriggers, lastTrigger>>
    /\ lastRun' = NoRun /\ lastOut' = NoOut

\* triggerRandomPlugin() after the await
RandomSelectionResolves ==
  \E i \in 1..Len(pendingRandom) :
    /\ pendingRandom' = SubSeq(pendingRandom, 1, i - 1) \o
                        SubSeq(pendingRandom, i + 1, Len(pendingRandom))
    /\ IF pendingRandom[i] = NoPlugin
       THEN /\ UNCHANGED <<queueVars, timerVars, histVars, lockVars, cycleVars>>
            /\ lastRun' = NoRun /\ lastOut' = NoOut
       ELSE triggerPlugin("random", pendingRandom[i])
    /\ UNCHANGED <<envVars, nTriggers, lastTrigger>>

\* ------------------------------------------------------ other entry points
enqueueUserMessage(message, priority) ==
  LET m == [priority |-> priority, inFlight |-> (priority /\ llmInFlight),
            seq |-> NextSeq(queueMeta)]
  IN /\ Len(queue) < MaxQueue
     /\ IF priority
        THEN /\ queue' = enqueueFront(queue, queueMeta, message)
             /\ queueMeta' = InsertAt(queueMeta, PriorityPrefix(queueMeta), m)
        ELSE /\ queue' = enqueue(queue, message)
             /\ queueMeta' = Append(queueMeta, m)
     /\ UNCHANGED <<envVars, timerVars, histVars, lockVars, cycleVars,
                    pendingRandom, nTriggers, lastTrigger>>
     /\ lastRun' = NoRun /\ lastOut' = NoOut

resetChatHistory ==
  /\ chatHistory' = <<>>
  /\ lastFilePath' = NoPath
  /\ UNCHANGED <<envVars, queueVars, timerVars, currentCharacter, lockVars,
                 cycleVars, pendingRandom, nTriggers, lastTrigger>>
  /\ lastRun' = NoRun /\ lastOut' = Called("resetChatHistory", NoReturn)

setCharacter(characterName) ==
  /\ currentCharacter' = characterName
  /\ chatHistory' = <<>>
  /\ lastFilePath' = NoPath
  /\ UNCHANGED <<envVars, queueVars, timerVars, lockVars, cycleVars,
                 pendingRandom, nTriggers, lastTrigger>>
  /\ lastRun' = NoRun /\ lastOut' = Called("setCharacter", NoReturn)

ActiveEditorChanges ==
  \E d \in {NoEditor} \cup Docs :
    /\ d # activeDoc
    /\ activeDoc' = d
    /\ UNCHANGED <<now, cfg, panel, git, queueVars, timerVars, histVars, lockVars, cycleVars,
                   pendingRandom, nTriggers, lastTrigger>>
    /\ lastRun' = NoRun /\ lastOut' = NoOut

\* AgentLoop.dispose (called by panel.onDidDispose)
dispose ==
  LET T1 == IF roastDebounceTimer # Undefined
            THEN clearTimeout(timers, roastDebounceTimer) ELSE timers
      T2 == IF cooldownTimer # Undefined
            THEN clearTimeout(T1, cooldownTimer) ELSE T1
  IN /\ timers' = T2
     /\ roastDebounceTimer' = Undefined
     /\ cooldownTimer' = Undefined
     /\ panel' = FALSE
     /\ UNCHANGED <<now, cfg, activeDoc, git, queueVars, histVars, lockVars, cycleVars,
                    pendingRandom, nTriggers, lastTrigger>>
     /\ lastRun' = NoRun /\ lastOut' = Called("dispose", NoReturn)

\* Time passes up to the next instant at which a timer expires, a debounce
\* window is half over or the cooldown window ends; callers and completions
\* act at these instants, in any order.
Deadlines ==
  {t.due : t \in timers} \cup
  {t.due - (DebounceMs \div 2) : t \in {u \in timers : u.kind = "debounce"}} \cup
  (IF lastLlmEndedAt # Null THEN {lastLlmEndedAt + MinMs} ELSE {})

Tick ==
  \E next \in Deadlines :
    /\ next > now
    /\ next <= MaxTime
    /\ \A t \in timers : t.due >= next
    /\ now' = next
    /\ UNCHANGED <<cfg, activeDoc, panel, git, queueVars, timerVars, histVars, lockVars,
                   cycleVars, pendingRandom, nTriggers, lastTrigger>>
    /\ lastRun' = NoRun /\ lastOut' = NoOut

\* MessageQueue.dequeue() called directly
DequeueCall ==
  /\ queue' = AfterDequeue(queue)
  /\ queueMeta' = Rerank(AfterDequeue(queueMeta))
  /\ UNCHANGED <<envVars, timerVars, histVars, lockVars, cycleVars,
                 pendingRandom, nTriggers, lastTrigger>>
  /\ lastRun' = NoRun /\ lastOut' = Called("dequeue", dequeue(queue))

\* MessageQueue.peek() called directly
PeekCall ==
  /\ UNCHANGED <<envVars, queueVars, timerVars, histVars, lockVars, cycleVars,
                 pendingRandom, nTriggers, lastTrigger>>
  /\ lastRun' = NoRun /\ lastOut' = Called("peek", peek(queue))

\* MessageQueue.isEmpty() called directly
IsEmptyCall ==
  /\ UNCHANGED <<envVars, queueVars, timerVars, histVars, lockVars, cycleVars,
                 pendingRandom, nTriggers, lastTrigger>>
  /\ lastRun' = NoRun
  /\ lastOut' = Called("isEmpty", IF isEmpty(queue) THEN "true" ELSE "false")

TriggerCall == \E h \in Hints : trigger(h)
EnqueueCall == \E m \in Texts : \E p \in BOOLEAN : enqueueUserMessage(m, p)
SetCharacterCall == \E ch \in Characters : setCharacter(ch)

\* --------------------------------------------- git integration: the handlers
\* the prompt built by codeReviewPlugin.createCommitComplimentPrompt
CommitCompliment == "compliment"

\* schedulePushCompliment: handlePush starts and suspends at repository.log,
\* unless one is already under way
schedulePushCompliment(repo) ==
  IF repo.isHandlingPush THEN repo ELSE [repo EXCEPT !.isHandlingPush = TRUE]

\* handleRepositoryStateChange, run on the repository state `repo`
handleRepositoryStateChange(repo) ==
  LET previousAhead == repo.lastAhead
      tracked == [repo EXCEPT !.lastAhead = repo.ahead]
  IN IF previousAhead = Null THEN tracked
     ELSE IF ~(previousAhead > 0 /\ repo.ahead = 0) THEN tracked
     ELSE IF repo.lastHandledCommit = repo.commit THEN tracked
     ELSE schedulePushCompliment(tracked)

GitUnchanged ==
  /\ UNCHANGED <<now, cfg, activeDoc, panel, queueVars, timerVars, histVars,
                 lockVars, cycleVars, pendingRandom, nTriggers, lastTrigger>>
  /\ lastRun' = NoRun /\ lastOut' = NoOut

\* a local commit: HEAD moves ahead of its upstream; state.onDidChange fires
LocalCommit ==
  /\ git.commit < MaxCommits
  /\ git.events = {}
  /\ git' = handleRepositoryStateChange(
              [git EXCEPT !.ahead = 1, !.commit = git.commit + 1])
  /\ GitUnchanged

\* the push of HEAD succeeds: the state change to ahead = 0 and the push
\* operation event are to be delivered, in either order
PushSucceeds ==
  /\ git.ahead > 0
  /\ git.events = {}
  /\ git' = [git EXCEPT !.events = {"state", "operation"}]
  /\ GitUnchanged

\* state.onDidChange fires with HEAD in sync
RepositoryStateChanges ==
  /\ "state" \in git.events
  /\ git' = handleRepositoryStateChange(
              [git EXCEPT !.ahead = 0, !.events = git.events \ {"state"}])
  /\ GitUnchanged

\* onDidRunOperation fires with a push that has not errored
PushOperationEvent ==
  /\ "operation" \in git.events
  /\ git' = schedulePushCompliment(
              [git EXCEPT !.events = git.events \ {"operation"}])
  /\ GitUnchanged

LogOutcomes == {"commit", "empty", "throw"}

\* handlePush after `await repository.log({ maxEntries: 1 })`, with the
\* .finally of schedulePushCompliment: the compliment for the last commit is
\* enqueued as a priority message and trigger('codeReview') is called
handlePush ==
  \E outcome \in LogOutcomes :
    LET m == [priority |-> TRUE, inFlight |-> llmInFlight,
              seq |-> NextSeq(queueMeta)]
        T1 == IF roastDebounceTimer # Undefined
              THEN clearTimeout(timers, roastDebounceTimer)
              ELSE timers
        id == FreshId(T1, cooldownTimer)
    IN /\ git.isHandlingPush
       /\ IF outcome = "commit"
          THEN /\ Len(queue) < MaxQueue
               /\ now + DebounceMs <= MaxTime
               /\ nTriggers < MaxTriggers
               /\ git' = [git EXCEPT !.isHandlingPush = FALSE,
                                     !.lastHandledCommit = git.commit,
                                     !.lastAhead = git.ahead,
                                     !.complimented[git.commit] = @ + 1]
               /\ queue' = enqueueFront(queue, queueMeta, CommitCompliment)
               /\ queueMeta' = InsertAt(queueMeta, PriorityPrefix(queueMeta), m)
               /\ nTriggers' = nTriggers + 1
               /\ timers' = T1 \cup {Timer(id, now + DebounceMs, "debounce",
                                           "codeReview", llmInFlight, Null)}
               /\ roastDebounceTimer' = id
               /\ lastTrigger' = [hint |-> "codeReview", at |-> now,
                                   first |-> IF lastTrigger.first = Null
                                             THEN now ELSE lastTrigger.first,
                                   calls |-> lastTrigger.calls + 1]
               /\ UNCHANGED cooldownTimer
          ELSE /\ git' = [git EXCEPT !.isHandlingPush = FALSE]
               /\ UNCHANGED <<queueVars, timerVars, nTriggers, lastTrigger>>
       /\ UNCHANGED <<now, cfg, activeDoc, panel, histVars, lockVars, cycleVars,
                      pendingRandom>>
       /\ lastRun' = NoRun /\ lastOut' = NoOut

Next ==
  \/ TriggerCall
  \/ DebounceExpires
  \/ CooldownExpires
  \/ SelectResolves
  \/ GenerateResolves
  \/ LlmThrows
  \/ LlmReturnsToolCalls
  \/ LlmReturnsText
  \/ LlmToolCallsIgnored
  \/ CycleEnds
  \/ TriggerPluginCall
  \/ triggerRandomPlugin
  \/ RandomSelectionResolves
  \/ EnqueueCall
  \/ resetChatHistory
  \/ SetCharacterCall
  \/ ActiveEditorChanges
  \/ LocalCommit
  \/ PushSucceeds
  \/ RepositoryStateChanges
  \/ PushOperationEvent
  \/ handlePush
  \/ dispose
  \/ Tick

Init == InitWith(Configs, {NoEditor} \cup Docs)

Spec == Init /\ [][Next]_vars

\* the scheduling part: entry points, timers, the lock and the cooldown; the
\* queue stays empty
InitSched == InitWith(SchedConfigs, Docs)

NextSched ==
  \/ TriggerCall
  \/ DebounceExpires
  \/ CooldownExpires
  \/ SelectResolves
  \/ GenerateResolves
  \/ LlmThrows
  \/ LlmReturnsText
  \/ CycleEnds
  \/ TriggerPluginCall
  \/ triggerRandomPlugin
  \/ RandomSelectionResolves
  \/ Tick

SpecSched == InitSched /\ [][NextSched]_vars

\* the queue part: every way of enqueueing, one debounced trigger
QueueConfigs == {Config(5, 5, FALSE, AllButScreenshot)}

InitQueue == InitWith(QueueConfigs, Docs)

TriggerOnce == nTriggers = 0 /\ TriggerCall

NextQueue ==
  \/ TriggerOnce
  \/ DebounceExpires
  \/ CooldownExpires
  \/ SelectResolves
  \/ GenerateResolves
  \/ LlmThrows
  \/ LlmReturnsText
  \/ CycleEnds
  \/ TriggerPluginCall
  \/ triggerRandomPlugin
  \/ RandomSelectionResolves
  \/ EnqueueCall
  \/ Tick

SpecQueue == InitQueue /\ [][NextQueue]_vars

\* the conversation part: history resets, tool rounds and pruning
HistConfigs ==
  {Config(5, 0, FALSE, AllButScreenshot), Config(5, 2, TRUE, AllButScreenshot), Config(5, 3, TRUE, AllButScreenshot)}

InitHist == InitWith(HistConfigs, Docs)

EnqueueNormal == enqueueUserMessage("a", FALSE)

NextHist ==
  \/ TriggerOnce
  \/ DebounceExpires
  \/ CooldownExpires
  \/ SelectResolves
  \/ GenerateResolves
  \/ LlmThrows
  \/ LlmReturnsToolCalls
  \/ LlmReturnsText
  \/ CycleEnds
  \/ TriggerPluginCall
  \/ EnqueueNormal
  \/ resetChatHistory
  \/ SetCharacterCall
  \/ Tick

SpecHist == InitHist /\ [][NextHist]_vars

\* one cycle after another with every outcome: abort, failure, tool rounds,
\* success; started by a debounced trigger or by triggerPlugin
CycleConfigs == {ThrowingHooks(Config(5, 5, TRUE, AllButScreenshot))}

InitCycle == InitWith(CycleConfigs, Docs)

EnqueueText == \E m \in Texts : enqueueUserMessage(m, FALSE)

NextCycle ==
  \/ TriggerOnce
  \/ DebounceExpires
  \/ CooldownExpires
  \/ SelectResolves
  \/ GenerateResolves
  \/ LlmThrows
  \/ LlmReturnsToolCalls
  \/ LlmReturnsText
  \/ CycleEnds
  \/ TriggerPluginCall
  \/ EnqueueText
  \/ Tick

SpecCycle == InitCycle /\ [][NextCycle]_vars

\* the message queue alone, called directly
QueueTexts == Texts \cup {"b"}

EnqueueAnyText == \E m \in QueueTexts : \E p \in BOOLEAN : enqueueUserMessage(m, p)

NextMQ ==
  \/ EnqueueAnyText
  \/ DequeueCall
  \/ PeekCall
  \/ IsEmptyCall

SpecMQ == InitQueue /\ [][NextMQ]_vars

\* the panel is closed at any moment; the listeners that call the entry
\* points are disposed with it
DisposeConfigs == {Config(5, 5, FALSE, AllButScreenshot)}

InitDispose == InitWith(DisposeConfigs, Docs)

TriggerWhileOpen == panel /\ TriggerCall

TriggerPluginWhileOpen == panel /\ TriggerPluginCall

NextDispose ==
  \/ TriggerWhileOpen
  \/ DebounceExpires
  \/ CooldownExpires
  \/ SelectResolves
  \/ GenerateResolves
  \/ LlmThrows
  \/ LlmReturnsText
  \/ CycleEnds
  \/ TriggerPluginWhileOpen
  \/ dispose
  \/ Tick

SpecDispose == InitDispose /\ [][NextDispose]_vars

\* ================================================================== claims
CooldownMs ==
  (IF cfg.minIntervalSeconds > MinIntervalFloorSec
   THEN cfg.minIntervalSeconds ELSE MinIntervalFloorSec) * 1000

DebounceTimers == {t \in timers : t.kind = "debounce"}
CooldownTimers == {t \in timers : t.kind = "cooldown"}

\* the cycle started by the last step consumed the head of the queue
HeadIsUserTurn ==
  \E c \in cycles : /\ c.cid = nCycles
                    /\ c.pc = "llm"
                    /\ c.plugin = NoPlugin
                    /\ c.userPrompt = lastRun.head

\* C1: at most one dispatch cycle holds the lock at any time, and the flag
\* llmInFlight is set exactly while one does.
C1_SingleFlight ==
  /\ Cardinality(cycles) <= 1
  /\ llmInFlight <=> cycles # {}

C1_Witness == cycles # {} /\ lastRun.outcome = "dropped"

\* C2: a cycle that starts with a non-empty queue takes the text of the queue
\* head as its user turn, removes exactly that one message and never reaches
\* plugin selection or generateMessage, whatever entry point started it.
C2_QueueBypass ==
  /\ (lastRun.outcome = "started" /\ lastRun.queueLen > 0)
       => (Len(queue) = lastRun.queueLen - 1 /\ HeadIsUserTurn)
  /\ \A c \in cycles :
       c.fromQueue => (c.pc \notin {"select", "generate"} /\ c.plugin = NoPlugin)

\* C3: when a priority message that was enqueued during a dispatch is pending,
\* the next cycle consumes a priority message (the oldest pending one, at the
\* head of the queue) as its user turn, ahead of every normal message and of
\* plugin selection.
C3_PriorityFirst ==
  /\ \A i, j \in 1..Len(queueMeta) :
       (i < j /\ queueMeta[j].priority) => queueMeta[i].priority
  /\ (lastRun.outcome = "started" /\ lastRun.priorityInFlight)
       => (lastRun.headPriority /\ HeadIsUserTurn)

\* C4: the lock is never acquired less than max(10 s, llm.minIntervalSeconds)
\* after the end of the previous cycle.
C4_CooldownFloor ==
  (lastRun.outcome = "started" /\ lastRun.prevEnd # Null)
    => now - lastRun.prevEnd >= CooldownMs

C4_Witness ==
  /\ lastRun.outcome = "started"
  /\ lastRun.prevEnd # Null
  /\ lastRun.src \in {"plugin", "random"}

\* C5 (as claimed): a call rescheduled for the cooldown is armed for the
\* remaining delta, and the expiry of the cooldown timer always starts a
\* dispatch cycle: it is never dropped and never rescheduled a second time.
C5_Original ==
  /\ \A t \in CooldownTimers : t.due = t.endAtArm + CooldownMs
  /\ Cardinality(CooldownTimers) <= 1
  /\ lastRun.src = "cooldown" => lastRun.outcome = "started"

\* C5 (amended): the rescheduled call is armed for the remaining delta, at most
\* one is pending, and its expiry starts a cycle at or after T+cooldown when no
\* other cycle has started since it was armed; it is dropped when a cycle is
\* in flight at the expiry.
C5_Amended ==
  /\ \A t \in CooldownTimers : t.due = t.endAtArm + CooldownMs
  /\ Cardinality(CooldownTimers) <= 1
  /\ (lastRun.src = "cooldown" /\ lastRun.wasInFlight)
       => lastRun.outcome = "dropped"
  /\ (lastRun.src = "cooldown" /\ ~lastRun.wasInFlight
        /\ lastRun.prevEnd = lastRun.endAtArm)
       => (lastRun.outcome = "started" /\ now >= lastRun.endAtArm + CooldownMs)

C5_Witness ==
  /\ lastRun.src = "cooldown"
  /\ lastRun.outcome = "started"
  /\ lastRun.prevEnd = lastRun.endAtArm

\* C6: a burst of trigger() calls leaves exactly one debounce timer, due 500 ms
\* after the last call and carrying its hint; its expiry is the only call of
\* run() for the burst.
C6_DebounceCollapse ==
  /\ Cardinality(DebounceTimers) <= 1
  /\ lastTrigger.at # Null =>
       \E t \in DebounceTimers : /\ t.due = lastTrigger.at + 500
                                 /\ t.id = roastDebounceTimer
                                 /\ t.pluginId = lastTrigger.hint
  /\ lastRun.src = "debounce" =>
       /\ lastRun.hint = lastRun.trigHint
       /\ lastRun.trigAt # Null
       /\ now = lastRun.trigAt + 500
       /\ lastRun.debounceLeft = 0

C6_Witness ==
  /\ lastRun.src = "debounce"
  /\ lastRun.trigCalls >= 2
  /\ lastRun.trigFirst < lastRun.trigAt
  /\ lastRun.hint = NoHint

C8_NoRetry ==
  [][(/\ lastRun'.skip
      /\ ~llmInFlight
      /\ lastLlmEndedAt # Null
      /\ now - lastLlmEndedAt < CooldownMs)
       => /\ lastRun'.outcome = "cooling"
          /\ UNCHANGED <<timerVars, chatHistory, lockVars, cycles, nCycles>>]_vars

C8_Witness ==
  /\ lastRun.src = "random"
  /\ lastRun.outcome = "cooling"
  /\ timers = {}

\* C9: a non-empty conversation history starts with the system turn.
C9_SystemFirst == Len(chatHistory) > 0 => chatHistory[1].role = "system"

\* C10: the history update of a cycle leaves at most maxHistory turns (values
\* below 1 count as 1); when it truncates, the result is the system turn
\* followed by the most recent maxHistory-1 turns in their order.
HistoryUpdated ==
  \E c \in cycles : \E d \in cycles' :
    c.cid = d.cid /\ c.pc = "llm" /\ d.pc = "post"

LastTurns(h, n) == [i \in 1..n |-> h[Len(h) - n + i]]

C10_PrunedToMax ==
  [][HistoryUpdated =>
       LET limit == IF cfg.maxHistory < 1 THEN 1 ELSE cfg.maxHistory
           d == CHOOSE d \in cycles' : d.pc = "post"
           pushed == chatHistory \o d.newMessages
       IN /\ Len(chatHistory') <= limit
          /\ Len(pushed) > limit =>
               /\ chatHistory'[1].role = "system"
               /\ chatHistory' = <<chatHistory'[1]>> \o LastTurns(pushed, limit - 1)]_vars

\* C11: the history update of a cycle keeps every turn the cycle produced (its
\* user turn, its tool round-trip turns and its final assistant turn).
C11_KeepsOwnTurns ==
  [][HistoryUpdated =>
       LET d == CHOOSE d \in cycles' : d.pc = "post"
       IN \A i \in 1..Len(d.newMessages) :
            \E j \in 1..Len(chatHistory') : chatHistory'[j] = d.newMessages[i]]_vars

FailureEvents == {"setupError", "errorSpeech"}

PostedFailure(out) == \E i \in 1..Len(out.posted) : out.posted[i] \in FailureEvents

\* the step in which the model invocation of a cycle rejects
InvokeFails == lastOut'.awaited = "invoke:throw"

FailedCycle == CHOOSE c \in cycles : c.pc = "llm"

\* C12 as stated: when a cycle fails, a failure event is emitted and the
\* history after the cycle equals the history before the cycle started.
C12_Original ==
  [][InvokeFails =>
       /\ PostedFailure(lastOut')
       /\ ~FailedCycle.prepared
       /\ chatHistory' = chatHistory]_vars

\* C12: when the model invocation of a cycle fails, a failure event is posted
\* to the panel, the failure step leaves the history as the cycle prepared it
\* at its start, and no turn of the failed exchange is in the history.
C12_Amended ==
  [][InvokeFails =>
       /\ panel => PostedFailure(lastOut')
       /\ UNCHANGED histVars
       /\ \A j \in 1..Len(chatHistory') : chatHistory'[j].cyc # FailedCycle.cid]_vars

C12_Witness ==
  /\ lastOut.awaited = "invoke:throw"
  /\ PostedFailure(lastOut)
  /\ Len(chatHistory) >= 3

\* a cycle ends in this step: a suspended activation of run() completes, or
\* run() acquires the lock and returns without suspending
CycleEndsNow ==
  \/ \E c \in cycles : ~\E d \in cycles' : d.cid = c.cid
  \/ nCycles' = nCycles + 1 /\ cycles' = cycles

\* C13: whenever a cycle that acquired the lock ends (success, failure, no
\* candidate, null message, empty dequeued text), the lock is released and
\* the last-completed time is the time of that end.
C13_LockReleased ==
  [][CycleEndsNow => llmInFlight' = FALSE /\ lastLlmEndedAt' = now']_vars

\* a cycle that dequeued an empty text has just ended, later than time 0
C13_Witness ==
  /\ lastRun.outcome = "started"
  /\ lastRun.queueLen > 0
  /\ cycles = {}
  /\ now > 0
  /\ ~llmInFlight
  /\ lastLlmEndedAt = now

\* C14: the model invocation loop stops by itself: a cycle that has answered
\* MaxRounds responses carrying tool calls does not invoke the model again.
C14_RoundsCapped == \A c \in cycles : c.pc = "llm" => c.rounds < MaxRounds

\* only the thinking indicator was posted: no speech, no success, no failure
Silent(out) ==
  \A i \in 1..Len(out.posted) : out.posted[i] \in {"thinkingOn", "thinkingOff"}

\* the step in which generateMessage of the selected plugin resolves to null
GenerateReturnsNull == lastOut'.awaited = "generate:null"

GeneratingCycle == CHOOSE c \in cycles : c.pc = "generate"

\* C15 as stated: when generateMessage returns null the cycle ends without a
\* model invocation, without a success or failure event, without another
\* generator, and the history is as it was before the cycle.
C15_Original ==
  [][GenerateReturnsNull =>
       /\ ~\E d \in cycles' : d.cid = GeneratingCycle.cid
       /\ Silent(lastOut')
       /\ ~GeneratingCycle.prepared
       /\ UNCHANGED histVars]_vars

\* C15: when generateMessage returns null the cycle ends in that step: no
\* model invocation, no other generator, no success or failure event, and
\* the history stays as the cycle prepared it at its start, without any turn
\* of this cycle.
C15_Amended ==
  [][GenerateReturnsNull =>
       /\ ~\E d \in cycles' : d.cid = GeneratingCycle.cid
       /\ Silent(lastOut')
       /\ UNCHANGED histVars
       /\ \A j \in 1..Len(chatHistory') : chatHistory'[j].cyc # GeneratingCycle.cid]_vars

C15_Witness ==
  /\ lastOut.awaited = "generate:null"
  /\ lastOut.posted = <<"thinkingOff">>
  /\ cycles = {}
  /\ ~llmInFlight
  /\ Len(chatHistory) >= 1

\* the step in which a generator hook throws: shouldTrigger inside
\* selectRandomPlugin, or generateMessage
HookThrows == lastOut'.awaited \in {"select:throw", "generate:throw"}

\* C16: when a generator hook throws, the cycle is aborted silently: no
\* success and no failure event is emitted, no turn of the cycle enters the
\* history, and the lock is released.
C16_SilentAbort ==
  [][HookThrows =>
       /\ Silent(lastOut')
       /\ \A j \in 1..Len(chatHistory') : chatHistory'[j].cyc # nCycles'
       /\ llmInFlight' = FALSE]_vars

\* C17: once dispose() has been called, no run() is started by a timer, no
\* message is posted by a dispatch that was in flight, and a further
\* dispose() changes no field.
C17_QuietAfterDispose ==
  [][~panel =>
       /\ lastRun'.src \notin {"debounce", "cooldown"}
       /\ lastOut'.posted = <<>>
       /\ lastOut'.call = "dispose" =>
            UNCHANGED <<timers, timerVars, panel, queueVars, histVars, lockVars,
                        cycleVars>>]_vars

\* C18: resetChatHistory() and setCharacter() leave the history empty and
\* the file anchor cleared; when the reset came while a cycle was in flight
\* (the request of the cycle starts with the system turn, the history is
\* empty when the answer arrives), the user turn of that cycle, created
\* before the reset, is not in the history after the cycle.
C18_NoTurnSurvivesReset ==
  [][/\ lastOut'.call \in {"resetChatHistory", "setCharacter"} =>
          chatHistory' = <<>> /\ lastFilePath' = NoPath
     /\ HistoryUpdated =>
          LET c == CHOOSE c \in cycles : c.pc = "llm"
          IN (chatHistory = <<>> /\ c.historyToSend[1].role = "system") =>
               \A j \in 1..Len(chatHistory') : chatHistory'[j] # c.newMessages[1]]_vars

\* the queue holds the entries added with enqueueFront before those added
\* with enqueue, each tier in the order of the calls
TierOrder ==
  \A i, j \in 1..Len(queueMeta) :
    i < j => /\ queueMeta[j].priority => queueMeta[i].priority
             /\ queueMeta[i].priority = queueMeta[j].priority =>
                  queueMeta[i].seq < queueMeta[j].seq

\* C19: after any calls of enqueue and enqueueFront the tiers are in order,
\* and each dequeue returns the message at the head: the oldest enqueueFront
\* message while there is one, the oldest enqueue message otherwise.
C19_TierFifo ==
  [][/\ TierOrder'
     /\ (lastOut'.call = "dequeue" /\ Len(queue) > 0) =>
          /\ lastOut'.returned = queue[1]
          /\ queue' = Tail(queue)]_vars

\* C20: dequeue() returns the not-found signal exactly on the empty queue,
\* and otherwise removes the head and returns it as it was enqueued; peek()
\* returns the head, or the signal on the empty queue, and changes nothing.
C20_DequeueHead ==
  [][/\ lastOut'.call = "dequeue" =>
          /\ lastOut'.returned = NullMsg <=> Len(queue) = 0
          /\ Len(queue) > 0 => lastOut'.returned = Head(queue)
          /\ queue' = (IF Len(queue) = 0 THEN queue ELSE Tail(queue))
     /\ lastOut'.call = "peek" =>
          /\ lastOut'.returned = (IF Len(queue) = 0 THEN NullMsg ELSE Head(queue))
          /\ queue' = queue]_vars

\* ------------------------------------------- specification: plugin selection
\* a user weight is absent, negative, zero or positive
WeightChoices == {Null, -2, 0, 3}

SelectConfigs ==
  {[Config(5, 5, FALSE, {}) EXCEPT !.enabled = e, !.weight = w] :
     e \in [PluginIds -> BOOLEAN], w \in [PluginIds -> WeightChoices]}

InitSelect == InitWith(SelectConfigs, Docs)

\* one call selectRandomPlugin(cfg, context): the hooks answer `verdict`, and
\* Math.random() * totalWeight is r / DrawScale
SelectRandomPluginCall ==
  \E verdict \in Verdicts : \E r \in Draws(verdict) :
    /\ lastOut' = [Called("selectRandomPlugin", selectRandomPlugin(verdict, r))
                     EXCEPT !.args = [verdict |-> verdict, r |-> r]]
    /\ lastRun' = NoRun
    /\ UNCHANGED <<envVars, queueVars, timerVars, histVars, lockVars, cycleVars,
                   pendingRandom, nTriggers, lastTrigger>>

NextSelect == SelectRandomPluginCall

SpecSelect == InitSelect /\ [][NextSelect]_vars

\* the last step was a call of selectRandomPlugin
Selected == lastOut.call = "selectRandomPlugin"

\* what plugin.shouldTrigger(context) answers, now or once its Promise
\* resolves; a plugin without the hook counts as answering true
ShouldTriggerResult(id, verdict) ==
  ShouldTriggerKind(id) = "absent" \/ verdict[id]

\* C21: selectRandomPlugin never returns a plugin that is disabled or whose
\* shouldTrigger result, synchronous or asynchronous, is false
C21_OnlyEligible ==
  (Selected /\ lastOut.returned # NoPlugin) =>
    /\ isEnabled(lastOut.returned)
    /\ ShouldTriggerResult(lastOut.returned, lastOut.args.verdict)

\* the weight the settings and the plugin give: the user's value when it is
\* set and not negative, else the plugin's default
EffectiveWeight(id) ==
  IF cfg.weight[id] = Null \/ cfg.weight[id] < 0
  THEN DefaultWeight(id)
  ELSE cfg.weight[id]

\* DrawScale times the sum of the effective weights of list[1..n]
RunningSum(list, n) ==
  LET F[i \in 0..n] == IF i = 0 THEN 0 ELSE F[i - 1] + DrawScale * EffectiveWeight(list[i])
  IN F[n]

\* C22: for the list left by the filter and a draw in [0, totalWeight), the
\* call returns the first plugin in registration order at which the draw minus
\* the running sum of effective weights is <= 0, and it returns none exactly
\* when the list is empty or the total weight is 0
C22_FirstAtRunningSum ==
  Selected =>
    LET list == Candidates(lastOut.args.verdict)
        r == lastOut.args.r
        total == RunningSum(list, Len(list))
    IN /\ (lastOut.returned = NoPlugin) <=> (Len(list) = 0 \/ total = 0)
       /\ lastOut.returned # NoPlugin =>
            \E i \in 1..Len(list) :
              /\ lastOut.returned = list[i]
              /\ r - RunningSum(list, i) <= 0
              /\ \A j \in 1..(i - 1) : r - RunningSum(list, j) > 0

\* the second of two candidates is returned for a draw past the first one's
\* overridden weight, its own negative override being replaced by the default
C22_Witness ==
  /\ Selected
  /\ lastOut.returned = "hackerNews"
  /\ isEnabled("codeReview")
  /\ cfg.weight["codeReview"] = 3
  /\ cfg.weight["hackerNews"] = -2
  /\ lastOut.args.r > DrawScale * 3

\* the draws strictly between two multiples of the weight unit: each stands
\* for an open interval of the same length, so counting them measures the
\* probability of a set of draws under a uniform Math.random()
InteriorDraws(verdict) == {k \in Draws(verdict) : k % DrawScale # 0}

DrawsReturning(id, verdict) ==
  {k \in InteriorDraws(verdict) : selectRandomPlugin(verdict, k) = id}

\* C23: a plugin is selected with probability weight / totalWeight: of the
\* equally likely draws, the share that returns it equals its effective weight
\* divided by the total weight of the candidates
C23_ShareIsWeight ==
  (Selected /\ lastOut.returned # NoPlugin) =>
    LET verdict == lastOut.args.verdict
        list == Candidates(verdict)
    IN Cardinality(DrawsReturning(lastOut.returned, verdict)) * RunningSum(list, Len(list))
         = DrawScale * EffectiveWeight(lastOut.returned) * Cardinality(InteriorDraws(verdict))

\* weights {codeReview: 1 (default), hackerNews: 3}: hackerNews is returned
\* for three quarters of the draws
C23_Witness ==
  /\ Selected
  /\ lastOut.returned = "hackerNews"
  /\ Candidates(lastOut.args.verdict) = <<"codeReview", "hackerNews">>
  /\ cfg.weight["codeReview"] = Null
  /\ cfg.weight["hackerNews"] = 3
  /\ Cardinality(DrawsReturning("hackerNews", lastOut.args.verdict)) * 4
       = 3 * Cardinality(InteriorDraws(lastOut.args.verdict))
  /\ InteriorDraws(lastOut.args.verdict) # {}

\* C28: a plugin whose effective weight is 0 is never returned while another
\* candidate has a positive weight, whatever the registration order and the
\* draw in [0, totalWeight), the draw 0 included
C28_ZeroWeightNeverReturned ==
  (Selected /\ lastOut.returned # NoPlugin) =>
    LET list == Candidates(lastOut.args.verdict)
    IN (\E i \in 1..Len(list) : EffectiveWeight(list[i]) > 0) =>
         EffectiveWeight(lastOut.returned) > 0

\* ----------------------------------------------- specification: tool loop
\* cycles with tool calling enabled and with tool calling disabled
ToolConfigs == {Config(5, 5, TRUE, AllButScreenshot), Config(5, 5, FALSE, AllButScreenshot)}

InitTools == InitWith(ToolConfigs, Docs)

NextTools ==
  \/ TriggerOnce
  \/ DebounceExpires
  \/ SelectResolves
  \/ GenerateResolves
  \/ LlmThrows
  \/ LlmReturnsToolCalls
  \/ LlmToolCallsIgnored
  \/ LlmReturnsText
  \/ CycleEnds
  \/ EnqueueText
  \/ TriggerPluginCall
  \/ Tick

SpecTools == InitTools /\ [][NextTools]_vars

\* the tools executeToolCall implements
KnownTools == {"show_quick_replies"}

\* the response asked for `calls` and the cycle went from history h to g: g is
\* h, the response, and one tool turn per call in call order, each answering
\* its call, with status error for a tool that is not implemented
ToolResultsAppended(h, g, calls) ==
  LET n == Len(h)
  IN /\ Len(g) = n + 1 + Len(calls)
     /\ SubSeq(g, 1, n) = h
     /\ g[n + 1].role = "ai"
     /\ Len(g[n + 1].tool_calls) = Len(calls)
     /\ \A i, j \in 1..Len(calls) :
          g[n + 1].tool_calls[i] = g[n + 1].tool_calls[j] => i = j
     /\ \A j \in 1..Len(calls) :
          /\ g[n + 1 + j].role = "tool"
          /\ g[n + 1 + j].tool_call_id = g[n + 1].tool_calls[j]
          /\ g[n + 1 + j].content =
               IF calls[j].name \in KnownTools THEN "success" ELSE "error"

ToolLoopStep ==
  /\ lastOut'.awaited = "invoke:tool_calls" =>
       \E c \in cycles : \E d \in cycles' :
         /\ c.cid = d.cid /\ c.pc = "llm" /\ d.pc = "llm"
         /\ c.quickRepliesEnabled
         /\ lastOut'.args # <<>>
         /\ ToolResultsAppended(c.historyToSend, d.historyToSend, lastOut'.args)
  /\ lastOut'.awaited = "invoke:text" =>
       /\ \A d \in cycles' : d.pc # "llm"
       /\ \A c \in cycles :
            (c.pc = "llm" /\ c.quickRepliesEnabled) => lastOut'.args = <<>>
  /\ \A d \in cycles' : ~d.quickRepliesEnabled => d.rounds = 0

\* C24: with tool calling enabled the model is invoked again only once every
\* tool call of its previous response has exactly one tool turn appended, in
\* call order, a call of an unknown tool getting a turn of status error; the
\* loop ends at the first response without tool calls; with tool calling
\* disabled the model is invoked once per cycle
C24_ToolLoop == [][ToolLoopStep]_vars

\* the model is about to be invoked again after a response that called an
\* unknown tool and then show_quick_replies
C24_Witness ==
  /\ lastOut.awaited = "invoke:tool_calls"
  /\ Len(lastOut.args) = 2
  /\ lastOut.args[1].name = "other_tool"
  /\ \E c \in cycles :
       /\ c.pc = "llm" /\ c.rounds = 1
       /\ c.historyToSend[Len(c.historyToSend) - 1].content = "error"

\* C25: once a cycle has completed the conversation history holds no tool turn
\* and no assistant turn carrying tool calls
C25_NoToolTurnsKept ==
  ~llmInFlight =>
    \A i \in 1..Len(chatHistory) :
      chatHistory[i].role # "tool" /\ chatHistory[i].tool_calls = <<>>

\* C26: no cycle calls generateMessage on, or sends the model a prompt
\* produced by, a plugin that the configuration disables, whether it was
\* selected by weight or named by the hint of trigger(id)
C26_NoDisabledGenerator ==
  \A c \in cycles :
    (c.plugin # NoPlugin /\ c.pc \in {"generate", "llm", "post"}) =>
      isEnabled(c.plugin)

\* C27: once a cycle has completed, pruning included, every tool turn kept in
\* the conversation history is preceded there by the assistant turn whose
\* tool call it answers
C27_ToolTurnHasItsCall ==
  ~llmInFlight =>
    \A i \in 1..Len(chatHistory) :
      chatHistory[i].role = "tool" =>
        \E j \in 1..(i - 1) :
          /\ chatHistory[j].role = "ai"
          /\ chatHistory[j].cyc = chatHistory[i].cyc
          /\ \E k \in 1..Len(chatHistory[j].tool_calls) :
               chatHistory[j].tool_calls[k] = chatHistory[i].tool_call_id

\* the replies of the last show_quick_replies call among `calls`, for the
\* cycle cid; `before` when there is none
LastQuickReplies(calls, before, cid) ==
  LET shown == {i \in 1..Len(calls) : calls[i].name = "show_quick_replies"}
      last == CHOOSE i \in shown : \A j \in shown : j <= i
  IN IF shown = {} THEN before
     ELSE [k \in 1..Len(calls[last].replies) |->
             [text |-> calls[last].replies[k], cyc |-> cid]]

QuickReplyStep ==
  /\ ~llmInFlight' => pendingQuickReplies' = <<>>
  /\ lastOut'.awaited = "invoke:tool_calls" =>
       \E c \in cycles :
         /\ c.pc = "llm"
         /\ pendingQuickReplies' =
              LastQuickReplies(lastOut'.args, pendingQuickReplies, c.cid)
  /\ lastOut'.quickReplies # <<>> =>
       /\ lastOut'.awaited = "invoke:text"
       /\ lastOut'.quickReplies = pendingQuickReplies
       /\ \E c \in cycles :
            /\ c.pc = "llm"
            /\ \A i \in 1..Len(lastOut'.quickReplies) :
                 lastOut'.quickReplies[i].cyc = c.cid
  /\ \A d \in cycles' \ cycles :
       (d.pc = "llm" /\ d.rounds = 0) => pendingQuickReplies' = <<>>

\* C29: pendingQuickReplies is empty whenever no cycle is in flight, and the
\* quickReplies of a speech event are those of the last show_quick_replies
\* call of the cycle that posts it, never those of an earlier or failed cycle
C29_QuickRepliesScoped == [][QuickReplyStep]_vars

\* the second cycle posts the replies its own tool call proposed
C29_Witness ==
  /\ lastOut.awaited = "invoke:text"
  /\ lastOut.quickReplies = <<[text |-> "yes", cyc |-> 2]>>
  /\ pendingQuickReplies = <<>>

\* ------------------------------------- git integration: the specification
GitConfigs == {Config(5, 5, FALSE, AllButScreenshot)}

InitGit == InitWith(GitConfigs, Docs)

NextGit ==
  \/ LocalCommit
  \/ PushSucceeds
  \/ RepositoryStateChanges
  \/ PushOperationEvent
  \/ handlePush
  \/ DebounceExpires
  \/ CooldownExpires
  \/ LlmThrows
  \/ LlmReturnsText
  \/ CycleEnds
  \/ Tick

SpecGit == InitGit /\ [][NextGit]_vars

\* C30: for one pushed commit at most one commit-compliment prompt is
\* enqueued, whatever the order of the push-operation event, the state change
\* to ahead = 0 and the completion of handlePush
C30_OneComplimentPerCommit ==
  \A k \in DOMAIN git.complimented : git.complimented[k] <= 1

====
